---- MODULE Spec2Model ----
(***************************************************************************)
(* A model of UltimateDataPipeline (data-cleaner.py): one controller that  *)
(* owns a pandas DataFrame (df) and a run report, and whose stages mutate  *)
(* the frame in place and return the controller.                           *)
(*                                                                         *)
(* Representation.  A frame is a record                                    *)
(*    [columns : Seq(name), dtypes : Seq(dtype), data : Seq(row)]          *)
(* a name is a sequence of one-character strings, a row a sequence of      *)
(* cells and a cell a record [k, n, d, s]:                                 *)
(*    k = "na"   the missing marker (NaN / None / NaT)                     *)
(*    k = "num"  the number n/d (d > 0, lowest terms)                      *)
(*    k = "str"  the text s (a sequence of one-character strings)          *)
(*    k = "dt"   a timestamp, carrying what it was converted from          *)
(* Numbers are exact rationals: quantiles at 0.25/0.5/0.75 of rationals    *)
(* and the thresholds used are rational, so every value the code computes  *)
(* is represented exactly; binary floating-point rounding is not modelled. *)
(* pandas semantics are those of pandas 1.x/2.x with object-dtype text.    *)
(* Frames in which two columns carry the same name are outside the model   *)
(* (the initial frames have one text column or names that stay distinct).  *)
(***************************************************************************)
EXTENDS Integers, Sequences, FiniteSets, TLC

VARIABLES df, report, ingest, pre, last, noutlier

vars == <<df, report, ingest, pre, last, noutlier>>

(***************************************************************************)
(* Bounds of the model.                                                    *)
(***************************************************************************)
MaxOutlierCalls == 1
MaxRows == 3
MaxNameLen == 3

(***************************************************************************)
(* Exact rational arithmetic on pairs <<n, d>>, d > 0.                     *)
(***************************************************************************)
Abs(x) == IF x < 0 THEN -x ELSE x

RECURSIVE GCD(_, _)
GCD(a, b) == IF b = 0 THEN a ELSE GCD(b, a % b)

RNorm(n, d) ==
    LET g == GCD(Abs(n), d)
    IN  IF n = 0 THEN <<0, 1>> ELSE <<n \div g, d \div g>>

RAdd(x, y) == RNorm(x[1] * y[2] + y[1] * x[2], x[2] * y[2])
RSub(x, y) == RNorm(x[1] * y[2] - y[1] * x[2], x[2] * y[2])
RMul(x, y) == RNorm(x[1] * y[1], x[2] * y[2])
RLt(x, y) == x[1] * y[2] < y[1] * x[2]
RLe(x, y) == x[1] * y[2] <= y[1] * x[2]

(***************************************************************************)
(* Cells.                                                                  *)
(***************************************************************************)
NA == [k |-> "na", n |-> 0, d |-> 1, s |-> <<>>]
Num(r) == [k |-> "num", n |-> r[1], d |-> r[2], s |-> <<>>]
Str(t) == [k |-> "str", n |-> 0, d |-> 1, s |-> t]
IntCell(i) == Num(<<i, 1>>)
Val(c) == <<c.n, c.d>>
IsNA(c) == c.k = "na"

(***************************************************************************)
(* Characters: the classes Python's str.strip, str.lower and the regular   *)
(* expression [^\w\s] distinguish.                                         *)
(***************************************************************************)
UpperSeq == <<"A", "B", "C", "D", "E", "F", "G", "H", "I", "J", "K", "L", "M",
              "N", "O", "P", "Q", "R", "S", "T", "U", "V", "W", "X", "Y", "Z">>
LowerSeq == <<"a", "b", "c", "d", "e", "f", "g", "h", "i", "j", "k", "l", "m",
              "n", "o", "p", "q", "r", "s", "t", "u", "v", "w", "x", "y", "z">>
DigitSeq == <<"0", "1", "2", "3", "4", "5", "6", "7", "8", "9">>
Range(q) == {q[i] : i \in DOMAIN q}

IsWhitespace(c) == c \in {" ", "\t", "\n", "\r"}
IsWordChar(c) == c \in Range(UpperSeq) \cup Range(LowerSeq) \cup Range(DigitSeq) \cup {"_"}
IsUpper(c) == c \in Range(UpperSeq)
ToLower(c) ==
    IF IsUpper(c) THEN LowerSeq[CHOOSE i \in DOMAIN UpperSeq : UpperSeq[i] = c] ELSE c

\* code point order of the characters the model uses (for sorting text)
CharOrder == <<"\t", "\n", "\r", " ", "!", "-", ".">> \o DigitSeq \o UpperSeq \o <<"_">> \o LowerSeq
CharCode(c) == CHOOSE i \in DOMAIN CharOrder : CharOrder[i] = c

RECURSIVE LStrip(_)
LStrip(t) == IF t # <<>> /\ IsWhitespace(Head(t)) THEN LStrip(Tail(t)) ELSE t

RECURSIVE RStrip(_)
RStrip(t) ==
    IF t # <<>> /\ IsWhitespace(t[Len(t)]) THEN RStrip(SubSeq(t, 1, Len(t) - 1)) ELSE t

\* str.strip()
Strip(t) == RStrip(LStrip(t))

\* str.lower()
Lower(t) == [i \in DOMAIN t |-> ToLower(t[i])]

\* str.replace(' ', '_'): the literal space only
ReplaceSpace(t) == [i \in DOMAIN t |-> IF t[i] = " " THEN "_" ELSE t[i]]

\* str.replace(r'[^\w\s]', '', regex=True)
RemovePunct(t) == SelectSeq(t, LAMBDA c : IsWordChar(c) \/ IsWhitespace(c))

\* the chain applied to df.columns
NormalizeName(t) == RemovePunct(ReplaceSpace(Lower(Strip(t))))

\* 'sub' in t
Contains(t, sub) ==
    \E i \in 0..(Len(t) - Len(sub)) : SubSeq(t, i + 1, i + Len(sub)) = sub

\* lexicographic order on text
RECURSIVE StrLt(_, _)
StrLt(a, b) ==
    IF b = <<>> THEN FALSE
    ELSE IF a = <<>> THEN TRUE
    ELSE IF Head(a) = Head(b) THEN StrLt(Tail(a), Tail(b))
    ELSE CharCode(Head(a)) < CharCode(Head(b))

(***************************************************************************)
(* Frames.                                                                 *)
(***************************************************************************)
EmptyDF == [columns |-> <<>>, dtypes |-> <<>>, data |-> <<>>]

NRows(f) == Len(f.data)
NCols(f) == Len(f.columns)
Shape(f) == <<NRows(f), NCols(f)>>

\* DataFrame.empty: some axis has length 0
IsEmpty(f) == NRows(f) = 0 \/ NCols(f) = 0

\* df[col] as a sequence of cells
Column(f, j) == [i \in 1..NRows(f) |-> f.data[i][j]]

\* the present (non-missing) cells of a column, in row order
Present(col) == SelectSeq(col, LAMBDA c : ~IsNA(c))

\* select_dtypes(include=[np.number]).columns / is_numeric_dtype
IsNumericCol(f, j) == f.dtypes[j] = "num"

\* select_dtypes(include=['object']).columns
IsObjectCol(f, j) == f.dtypes[j] = "obj"

\* rows kept by a boolean mask, order preserved
RECURSIVE FilterRows(_, _, _)
FilterRows(rows, keep, i) ==
    IF i > Len(rows) THEN <<>>
    ELSE (IF keep[i] THEN <<rows[i]>> ELSE <<>>) \o FilterRows(rows, keep, i + 1)

(***************************************************************************)
(* Series.quantile(q) for q = qn/4, linear interpolation over the present  *)
(* values: position (n-1)*q between the order statistics.  QNaN when the   *)
(* column has no present value.                                            *)
(***************************************************************************)
QNaN == <<0, 0>>
IsQNaN(r) == r[2] = 0

SortedVals(col) ==
    LET p == Present(col)
    IN  SortSeq([i \in DOMAIN p |-> Val(p[i])], RLt)

QuantileOf(v, qn) ==
    LET n == Len(v)
        pos4 == (n - 1) * qn
        lo == pos4 \div 4
        fr == pos4 % 4
    IN  IF n = 0 THEN QNaN
        ELSE IF fr = 0 THEN v[lo + 1]
        ELSE RAdd(v[lo + 1], RMul(<<fr, 4>>, RSub(v[lo + 2], v[lo + 1])))

Quantile(col, qn) == QuantileOf(SortedVals(col), qn)

\* Series.median()
Median(col) == Quantile(col, 2)

(***************************************************************************)
(* Series.mode(): the most frequent present values, sorted; [0] is the     *)
(* one that sorts first.  ModeExists is "not mode_series.empty".           *)
(***************************************************************************)
CellLt(a, b) ==
    IF a.s # b.s THEN StrLt(a.s, b.s) ELSE RLt(Val(a), Val(b))

Count(col, c) == Cardinality({i \in DOMAIN col : col[i] = c})

ModeExists(col) == Present(col) # <<>>

\* variant: among the most frequent values, the one met first in the column
Mode0FirstSeen(col) ==
    LET p == Present(col)
        best == {i \in DOMAIN p : \A h \in DOMAIN p : Count(col, p[h]) <= Count(col, p[i])}
    IN  p[CHOOSE i \in best : \A h \in best : i <= h]

Mode0(col) ==
    LET vals == Range(Present(col))
        best == {c \in vals : \A e \in vals : Count(col, e) <= Count(col, c)}
    IN  CHOOSE c \in best : \A e \in best : e = c \/ CellLt(c, e)

(***************************************************************************)
(* standardize (lines 55-73).                                              *)
(***************************************************************************)
NanText == <<"n", "a", "n">>

\* astype(str): the missing marker becomes the text 'nan'
AsType_str(c) == IF IsNA(c) THEN Str(NanText) ELSE c

\* self.df[col].astype(str).str.strip()
StripCell(c) ==
    LET t == AsType_str(c)
    IN  IF t.k = "str" THEN Str(Strip(t.s)) ELSE t

StandardizeDF(f) ==
    IF IsEmpty(f) THEN f
    ELSE [f EXCEPT
            !.columns = [j \in DOMAIN f.columns |-> NormalizeName(f.columns[j])],
            !.data = [i \in DOMAIN f.data |->
                        [j \in DOMAIN f.columns |->
                            IF IsObjectCol(f, j) THEN StripCell(f.data[i][j])
                            ELSE f.data[i][j]]]]

(***************************************************************************)
(* handle_garbage (lines 75-89).                                           *)
(***************************************************************************)
\* drop_duplicates(): keep the first occurrence; missing markers compare equal
DropDuplicates(rows) ==
    FilterRows(rows, [i \in DOMAIN rows |-> \A h \in 1..(i - 1) : rows[h] # rows[i]], 1)

\* variant: dropna(how='any')
DropNaAny(rows) ==
    FilterRows(rows, [i \in DOMAIN rows |-> \A j \in DOMAIN rows[i] : ~IsNA(rows[i][j])], 1)

\* dropna(how='all')
DropNaAll(rows) ==
    FilterRows(rows, [i \in DOMAIN rows |-> \E j \in DOMAIN rows[i] : ~IsNA(rows[i][j])], 1)

HandleGarbageDF(f) ==
    IF IsEmpty(f) THEN f
    ELSE [f EXCEPT !.data = DropNaAll(DropDuplicates(f.data))]

(***************************************************************************)
(* impute_missing (lines 91-114).  Each column is read and written on its  *)
(* own, so the loop over the columns is a map.                             *)
(***************************************************************************)
FillValue(f, j) ==
    LET col == Column(f, j)
        m == Median(col)
    IN  IF IsNumericCol(f, j)
        THEN (IF IsQNaN(m) THEN NA ELSE Num(m))
        ELSE (IF ModeExists(col) THEN Mode0(col) ELSE NA)

RECURSIVE FillFrom(_, _)
FillFrom(f, j) ==
    IF j > NCols(f) THEN <<>> ELSE <<FillValue(f, j)>> \o FillFrom(f, j + 1)

ImputeMissingDF(f) ==
    IF IsEmpty(f) THEN f
    ELSE LET fill == FillFrom(f, 1)
         IN  [f EXCEPT !.data = [i \in DOMAIN f.data |->
                        [j \in DOMAIN f.columns |->
                            IF IsNA(f.data[i][j]) THEN fill[j] ELSE f.data[i][j]]]]

(***************************************************************************)
(* handle_outliers (lines 116-188).  Q1, Q3 and the bounds of a column are *)
(* computed from the frame as it is when the call starts: 'remove' only    *)
(* builds a mask before it filters, and 'cap' writes a column only after   *)
(* it has read that column's quantiles.                                    *)
(***************************************************************************)
\* variant: the bounds taken with the magnitude of the threshold
ColBoundsAbs(col, t) ==
    LET v == SortedVals(col)
        q1 == QuantileOf(v, 1)
        q3 == QuantileOf(v, 3)
        nan == IsQNaN(q1)
        iqr == IF nan THEN QNaN ELSE RSub(q3, q1)
        m == <<Abs(t[1]), t[2]>>
    IN  [Q1 |-> q1, Q3 |-> q3, IQR |-> iqr,
         skip |-> ~nan /\ iqr = <<0, 1>>,
         lower |-> IF nan THEN QNaN ELSE RSub(q1, RMul(m, iqr)),
         upper |-> IF nan THEN QNaN ELSE RAdd(q3, RMul(m, iqr))]

\* Q1, Q3, IQR, "if IQR == 0: continue", lower_bound and upper_bound of one
\* column (NaN throughout when the column has no present value; NaN == 0 is
\* False, so such a column is not skipped)
ColBounds(col, t) ==
    LET v == SortedVals(col)
        q1 == QuantileOf(v, 1)
        q3 == QuantileOf(v, 3)
        nan == IsQNaN(q1)
        iqr == IF nan THEN QNaN ELSE RSub(q3, q1)
    IN  [Q1 |-> q1, Q3 |-> q3, IQR |-> iqr,
         skip |-> ~nan /\ iqr = <<0, 1>>,
         lower |-> IF nan THEN QNaN ELSE RSub(q1, RMul(t, iqr)),
         upper |-> IF nan THEN QNaN ELSE RAdd(q3, RMul(t, iqr))]

\* comparisons of a cell with a bound; any comparison with NaN is False
CellBelow(c, b) == ~IsNA(c) /\ ~IsQNaN(b) /\ RLt(Val(c), b)
CellAbove(c, b) == ~IsNA(c) /\ ~IsQNaN(b) /\ RLt(b, Val(c))
CellGe(c, b) == ~IsNA(c) /\ ~IsQNaN(b) /\ RLe(b, Val(c))
CellLe(c, b) == ~IsNA(c) /\ ~IsQNaN(b) /\ RLe(Val(c), b)

\* the bounds of every column, as a sequence indexed like df.columns
RECURSIVE BoundsFrom(_, _, _)
BoundsFrom(f, t, j) ==
    IF j > NCols(f) THEN <<>>
    ELSE <<ColBounds(Column(f, j), t)>> \o BoundsFrom(f, t, j + 1)

\* variant: the mask without "| ~col_valid", which drops the missing cells' rows
ColMaskDropsMissing(c, b) == CellGe(c, b.lower) /\ CellLe(c, b.upper)

\* col_mask = ((x >= lower) & (x <= upper)) | ~x.notna()
ColMask(c, b) == (CellGe(c, b.lower) /\ CellLe(c, b.upper)) \/ IsNA(c)

\* mask = AND of col_mask over the numeric columns that are not skipped
RowMask(f, t) ==
    LET b == BoundsFrom(f, t, 1)
    IN  [i \in DOMAIN f.data |->
            \A j \in DOMAIN f.columns :
                (IsNumericCol(f, j) /\ ~b[j].skip) => ColMask(f.data[i][j], b[j])]

RemoveOutliers(f, t) == [f EXCEPT !.data = FilterRows(f.data, RowMask(f, t), 1)]

\* has_outliers = ((x < lower) | (x > upper)).any()
HasOutliers(col, b) ==
    \E i \in DOMAIN col : CellBelow(col[i], b.lower) \/ CellAbove(col[i], b.upper)

\* variant: only the upper side is capped
CapCellUpperOnly(c, b) == IF CellAbove(c, b.upper) THEN Num(b.upper) ELSE c

\* np.where(x < lower, lower, x) and then np.where(x > upper, upper, x)
CapCell(c, b) ==
    LET c1 == IF CellBelow(c, b.lower) THEN Num(b.lower) ELSE c
    IN  IF CellAbove(c1, b.upper) THEN Num(b.upper) ELSE c1

\* the columns 'cap' rewrites
Capped(f, j, b) == IsNumericCol(f, j) /\ ~b.skip /\ HasOutliers(Column(f, j), b)

CapOutliers(f, t) ==
    LET b == BoundsFrom(f, t, 1)
        hit == {j \in DOMAIN f.columns : Capped(f, j, b[j])}
    IN  [f EXCEPT !.data = [i \in DOMAIN f.data |->
                    [j \in DOMAIN f.columns |->
                        IF j \in hit THEN CapCell(f.data[i][j], b[j]) ELSE f.data[i][j]]]]

\* variant: an unknown method is passed over in silence
HandleOutliersCallSilent(f, t, method) ==
    IF IsEmpty(f) THEN [df |-> f, ret |-> "self"]
    ELSE IF method = "remove" THEN [df |-> RemoveOutliers(f, t), ret |-> "self"]
    ELSE IF method = "cap" THEN [df |-> CapOutliers(f, t), ret |-> "self"]
    ELSE [df |-> f, ret |-> "self"]

\* the result of a call: the frame it leaves and how it ends
HandleOutliersCall(f, t, method) ==
    IF IsEmpty(f) THEN [df |-> f, ret |-> "self"]
    ELSE IF method = "remove" THEN [df |-> RemoveOutliers(f, t), ret |-> "self"]
    ELSE IF method = "cap" THEN [df |-> CapOutliers(f, t), ret |-> "self"]
    ELSE [df |-> f, ret |-> "ValueError"]

(***************************************************************************)
(* optimize (lines 190-209).  pd.to_datetime(errors='coerce') is modelled  *)
(* by what it does to a cell: text made of digits and dashes parses, other *)
(* text becomes missing, a number is read as an epoch offset.              *)
(***************************************************************************)
IsDateText(t) == t # <<>> /\ \A i \in DOMAIN t : t[i] \in Range(DigitSeq) \cup {"-"}

ToDatetimeCell(c) ==
    IF c.k = "str" THEN (IF IsDateText(c.s) THEN [c EXCEPT !.k = "dt"] ELSE NA)
    ELSE IF c.k = "num" THEN [c EXCEPT !.k = "dt"]
    ELSE c

\* 'fecha' in col.lower() or 'date' in col.lower()
IsDateName(name) ==
    \/ Contains(Lower(name), <<"f", "e", "c", "h", "a">>)
    \/ Contains(Lower(name), <<"d", "a", "t", "e">>)

\* Series.nunique(): distinct present values
NUnique(col) == Cardinality(Range(Present(col)))

OptimizeDF(f) ==
    IF IsEmpty(f) THEN f
    ELSE LET isdate == [j \in DOMAIN f.columns |-> IsDateName(f.columns[j])]
             conv == [f EXCEPT
                        !.dtypes = [j \in DOMAIN f.columns |->
                                        IF isdate[j] THEN "datetime" ELSE f.dtypes[j]],
                        !.data = [i \in DOMAIN f.data |->
                                    [j \in DOMAIN f.columns |->
                                        IF isdate[j] THEN ToDatetimeCell(f.data[i][j])
                                        ELSE f.data[i][j]]]]
         IN  [conv EXCEPT
                !.dtypes = [j \in DOMAIN f.columns |->
                                IF conv.dtypes[j] = "obj"
                                   /\ 10 * NUnique(Column(conv, j)) < NRows(conv)
                                THEN "category" ELSE conv.dtypes[j]]]

(***************************************************************************)
(* export (lines 211-231): nothing leaves an empty frame; an unsupported   *)
(* format or a failing writer is logged, never raised.                     *)
(***************************************************************************)
ExportFormats == {"csv", "excel", "sql", "bogus"}

ExportCall(f, format, io_ok) ==
    IF IsEmpty(f) THEN "skipped"
    ELSE IF format \in {"csv", "excel", "sql"} /\ io_ok THEN "written"
    ELSE "error"

(***************************************************************************)
(* __init__ and _ingest (lines 18-53).  `kind` is what the loader meets:   *)
(* "ok" (the source loads as `table`) or one of the failures raised inside *)
(* the try block; the except clause turns each into an empty frame.        *)
(***************************************************************************)
IngestKinds == {"ok", "missing_file", "unsupported_format", "sql_without_query"}

\* variant: without the except clause a failure leaves the constructor
IngestPropagates(kind, table) ==
    IF kind = "ok" THEN [df |-> table, ret |-> "self"]
    ELSE [df |-> EmptyDF, ret |-> "Exception"]

Ingest(kind, table) ==
    IF kind = "ok" THEN [df |-> table, ret |-> "self"]
    ELSE [df |-> EmptyDF, ret |-> "self"]

\* the record of a call: the operation, its method and threshold arguments,
\* how it ended ("self": returned the controller, "None": returned nothing,
\* otherwise the exception that left it) and what export did with the output
NoArg == <<0, 1>>
NewCall(op, method, t, ret, out) ==
    [op |-> op, method |-> method, threshold |-> t, ret |-> ret, out |-> out]

\* the controller's fields, as `pre` keeps them from before the last call
Fields(f, r) == [df |-> f, report |-> r]

Construct(kind, table) ==
    LET r == Ingest(kind, table)
    IN  /\ ingest = kind
        /\ df = r.df
        /\ report = [initial_shape |-> Shape(r.df)]
        /\ pre = Fields(r.df, [initial_shape |-> Shape(r.df)])
        /\ last = NewCall("__init__", "", NoArg, r.ret, "")
        /\ noutlier = 0

(***************************************************************************)
(* The calls a caller can make, in any order.  handle_outliers is bounded  *)
(* in number, because repeated capping produces ever new values.           *)
(***************************************************************************)
DefaultThreshold == <<3, 2>>
Thresholds == {DefaultThreshold, <<1, 2>>, <<0, 1>>, <<-1, 1>>}
Methods == {"cap", "remove", "bogus"}

Standardize ==
    /\ df' = StandardizeDF(df)
    /\ pre' = Fields(df, report)
    /\ last' = NewCall("standardize", "", NoArg, "self", "")
    /\ UNCHANGED <<report, ingest, noutlier>>

HandleGarbage ==
    /\ df' = HandleGarbageDF(df)
    /\ pre' = Fields(df, report)
    /\ last' = NewCall("handle_garbage", "", NoArg, "self", "")
    /\ UNCHANGED <<report, ingest, noutlier>>

ImputeMissing ==
    /\ df' = ImputeMissingDF(df)
    /\ pre' = Fields(df, report)
    /\ last' = NewCall("impute_missing", "", NoArg, "self", "")
    /\ UNCHANGED <<report, ingest, noutlier>>

HandleOutliers ==
    /\ noutlier < MaxOutlierCalls
    /\ \E t \in Thresholds, method \in Methods :
        LET r == HandleOutliersCall(df, t, method)
        IN  /\ df' = r.df
            /\ last' = NewCall("handle_outliers", method, t, r.ret, "")
    /\ pre' = Fields(df, report)
    /\ noutlier' = noutlier + 1
    /\ UNCHANGED <<report, ingest>>

Optimize ==
    /\ df' = OptimizeDF(df)
    /\ pre' = Fields(df, report)
    /\ last' = NewCall("optimize", "", NoArg, "self", "")
    /\ UNCHANGED <<report, ingest, noutlier>>

Export ==
    /\ \E format \in ExportFormats, io_ok \in BOOLEAN :
        last' = NewCall("export", "", NoArg, "None", ExportCall(df, format, io_ok))
    /\ pre' = Fields(df, report)
    /\ UNCHANGED <<df, report, ingest, noutlier>>

Next ==
    \/ Standardize
    \/ HandleGarbage
    \/ ImputeMissing
    \/ HandleOutliers
    \/ Optimize
    \/ Export

(***************************************************************************)
(* Initial states: the controller right after construction.  Each          *)
(* specification constructs it from one family of sources; every family    *)
(* is met with every outcome of the loader.                                *)
(***************************************************************************)
SeqsUpTo(S, lo, hi) == UNION {[1..k -> S] : k \in lo..hi}

TwoColumns(n1, t1, n2, t2, rows) ==
    [columns |-> <<n1, n2>>, dtypes |-> <<t1, t2>>, data |-> rows]

OneColumn(name, dtype, cells) ==
    [columns |-> <<name>>, dtypes |-> <<dtype>>,
     data |-> [i \in DOMAIN cells |-> <<cells[i]>>]]

\* the column names of the repository's example frame
NombreName == <<"N", "o", "m", "b", "r", "e", " ">>
EdadName == <<" ", "E", "d", "a", "d">>
ScoreName == <<"S", "c", "o", "r", "e">>
FechaName == <<"F", "e", "c", "h", "a", " ", "R", "e", "g", "i", "s", "t", "r", "o">>

\* text and number: duplicates, missing cells, rows missing throughout
MixedRows == {<<Str(<<"b">>), IntCell(1)>>, <<Str(<<"a">>), IntCell(9)>>,
              <<Str(<<"a">>), NA>>, <<NA, NA>>}
MixedFrames ==
    {TwoColumns(NombreName, "obj", EdadName, "num", rows) :
        rows \in SeqsUpTo(MixedRows, 0, MaxRows)}

\* the ages of the repository's example frame, and the first four of them
ExampleAges == <<IntCell(25), IntCell(30), IntCell(25), IntCell(120), IntCell(1500)>>
FourAges == SubSeq(ExampleAges, 1, 4)
ExampleFrames == {OneColumn(EdadName, "num", ages) : ages \in {ExampleAges, FourAges}}

\* two numeric columns, and the example's ages
NumRows == {<<IntCell(1), IntCell(1)>>, <<IntCell(9), IntCell(1)>>,
            <<IntCell(1), IntCell(9)>>, <<NA, IntCell(9)>>}
NumFrames ==
    {TwoColumns(EdadName, "num", ScoreName, "num", rows) :
        rows \in SeqsUpTo(NumRows, 0, MaxRows)} \cup ExampleFrames

\* one text column under every name over NameChars, and under a date name
NameChars == {"A", " ", "\t", "!"}
Names == SeqsUpTo(NameChars, 1, MaxNameLen) \cup {FechaName}
TextColumns == {<<Str(<<" ", "x">>), NA>>,
                <<Str(<<"2", "0", "2", "3">>), Str(<<"x", "\t">>)>>}
NameFrames == {OneColumn(name, "obj", cells) : name \in Names, cells \in TextColumns}

Init == \E kind \in IngestKinds, table \in MixedFrames : Construct(kind, table)
InitOutliers == \E kind \in IngestKinds, table \in NumFrames : Construct(kind, table)
InitNames == \E kind \in IngestKinds, table \in NameFrames : Construct(kind, table)

Spec == Init /\ [][Next]_vars
SpecOutliers == InitOutliers /\ [][Next]_vars
SpecNames == InitNames /\ [][Next]_vars

(***************************************************************************)
(* Properties.  `pre` holds the controller's fields before the last call   *)
(* and `last` the call, so each property speaks of one call's effect.      *)
(***************************************************************************)
Zero == <<0, 1>>
Called(op) == last.op = op
Cols(f) == DOMAIN f.columns
Rows(f) == DOMAIN f.data

\* the quartiles of a column's present values
Q1(col) == Quantile(col, 1)
Q3(col) == Quantile(col, 3)

\* a numeric column of f whose IQR, over its present values, is > 0
HasSpread(f, j) ==
    /\ IsNumericCol(f, j)
    /\ ~IsQNaN(Q3(Column(f, j)))
    /\ RLt(Q1(Column(f, j)), Q3(Column(f, j)))

\* [Q1 - t*IQR, Q3 + t*IQR] of column j of f
Lo(f, j, t) == RSub(Q1(Column(f, j)), RMul(t, RSub(Q3(Column(f, j)), Q1(Column(f, j)))))
Hi(f, j, t) == RAdd(Q3(Column(f, j)), RMul(t, RSub(Q3(Column(f, j)), Q1(Column(f, j)))))
Within(c, lo, hi) == RLe(lo, Val(c)) /\ RLe(Val(c), hi)

\* C1: after handle_outliers(method='cap') with a positive threshold the row
\* count is unchanged, every missing cell is still missing, and in every
\* numeric column whose IQR before the call is > 0 no present value lies
\* outside [Q1 - threshold*IQR, Q3 + threshold*IQR] (of the values before the
\* call) and every value that was inside these bounds is unchanged.  Of the
\* ages 25, 30, 25, 120 under threshold 1.5 the value 120 becomes the upper
\* bound 93.75 and the four rows stay.
C1_CapWithinBounds ==
    (Called("handle_outliers") /\ last.method = "cap" /\ RLt(Zero, last.threshold)) =>
        /\ NRows(df) = NRows(pre.df)
        /\ \A i \in Rows(df), j \in Cols(df) : IsNA(pre.df.data[i][j]) => IsNA(df.data[i][j])
        /\ \A j \in Cols(df) :
            HasSpread(pre.df, j) =>
                LET lo == Lo(pre.df, j, last.threshold)
                    hi == Hi(pre.df, j, last.threshold)
                IN  \A i \in Rows(df) :
                        /\ ~IsNA(df.data[i][j]) => Within(df.data[i][j], lo, hi)
                        /\ (~IsNA(pre.df.data[i][j]) /\ Within(pre.df.data[i][j], lo, hi))
                                => df.data[i][j] = pre.df.data[i][j]
        /\ (Column(pre.df, 1) = FourAges /\ last.threshold = DefaultThreshold) =>
                Column(df, 1) = <<IntCell(25), IntCell(30), IntCell(25), Num(<<375, 4>>)>>

\* a capping call with a positive threshold has replaced a value above the
\* upper bound by that bound, in a frame with a missing cell
C1_Witness ==
    /\ Called("handle_outliers") /\ last.method = "cap" /\ RLt(Zero, last.threshold)
    /\ \E j \in Cols(df) :
        /\ HasSpread(pre.df, j)
        /\ \E i \in Rows(df) :
            /\ ~IsNA(pre.df.data[i][j])
            /\ RLt(Hi(pre.df, j, last.threshold), Val(pre.df.data[i][j]))
            /\ df.data[i][j] = Num(Hi(pre.df, j, last.threshold))
    /\ \E j \in Cols(df), i \in Rows(df) : IsNA(df.data[i][j])

\* the rows of f that the claim keeps under threshold t
C2_Keep(f, t) ==
    [i \in Rows(f) |->
        \A j \in Cols(f) :
            HasSpread(f, j) =>
                \/ IsNA(f.data[i][j])
                \/ Within(f.data[i][j], Lo(f, j, t), Hi(f, j, t))]

\* C2: handle_outliers(method='remove') retains a row if and only if, in every
\* numeric column with IQR > 0 (bounds from the frame before the call), its
\* value is within the bounds or missing; the retained rows keep their values
\* and their order, and the columns are untouched.  Of the ages 25, 30, 25,
\* 120 under threshold 1.5 exactly the row holding 120 goes, three rows stay.
C2_RemoveKeepsExactlyInBounds ==
    (Called("handle_outliers") /\ last.method = "remove") =>
        /\ df.data = FilterRows(pre.df.data, C2_Keep(pre.df, last.threshold), 1)
        /\ df.columns = pre.df.columns
        /\ df.dtypes = pre.df.dtypes
        /\ (Column(pre.df, 1) = FourAges /\ last.threshold = DefaultThreshold) =>
                Column(df, 1) = <<IntCell(25), IntCell(30), IntCell(25)>>

\* a removal with a positive threshold has dropped a row and kept others,
\* one of them with a missing number
C2_Witness ==
    /\ Called("handle_outliers") /\ last.method = "remove"
    /\ RLt(Zero, last.threshold)
    /\ 0 < NRows(df) /\ NRows(df) < NRows(pre.df)
    /\ \E i \in Rows(df), j \in Cols(df) : IsNA(df.data[i][j])

\* every present value of the columns with IQR > 0 counts as an outlier, and
\* the call has treated it so: 'remove' kept only the rows without a present
\* value in such a column, 'cap' replaced every such value by a bound
C9_AllOutliers(f, t, method, g) ==
    /\ \A j \in Cols(f) :
        HasSpread(f, j) =>
            \A i \in Rows(f) :
                ~IsNA(f.data[i][j]) => ~Within(f.data[i][j], Lo(f, j, t), Hi(f, j, t))
    /\ method = "remove" =>
        g.data = FilterRows(f.data,
                    [i \in Rows(f) |-> \A j \in Cols(f) : HasSpread(f, j) => IsNA(f.data[i][j])], 1)
    /\ method = "cap" =>
        \A j \in Cols(f) :
            HasSpread(f, j) =>
                \A i \in Rows(f) :
                    ~IsNA(f.data[i][j]) =>
                        g.data[i][j] \in {Num(Lo(f, j, t)), Num(Hi(f, j, t))}

\* C9 as stated: with a threshold <= 0 every present value of a numeric column
\* with IQR > 0 falls strictly outside the bounds, so 'remove' drops every row
\* holding one and 'cap' replaces every one by a bound.
C9_NonPositiveThresholdFlagsAll ==
    (Called("handle_outliers") /\ last.method \in {"cap", "remove"}
        /\ RLe(last.threshold, Zero)) =>
            C9_AllOutliers(pre.df, last.threshold, last.method, df)

\* C9 as amended: the same for a threshold below -1/2, where the lower bound
\* lies above the upper bound.
C9_ThresholdBelowMinusHalfFlagsAll ==
    (Called("handle_outliers") /\ last.method \in {"cap", "remove"}
        /\ RLt(last.threshold, <<-1, 2>>)) =>
            C9_AllOutliers(pre.df, last.threshold, last.method, df)

\* a capping call with a threshold below -1/2 has met a column with spread
\* and set its present values to a bound, one of them a value that lay
\* between the quartiles
C9_Witness ==
    /\ Called("handle_outliers") /\ last.method = "cap"
    /\ RLt(last.threshold, <<-1, 2>>)
    /\ \E j \in Cols(df) :
        /\ HasSpread(pre.df, j)
        /\ \E i \in Rows(df) :
            /\ ~IsNA(pre.df.data[i][j])
            /\ Within(pre.df.data[i][j], Q1(Column(pre.df, j)), Q3(Column(pre.df, j)))
            /\ df.data[i][j] # pre.df.data[i][j]

\* C3 as stated: in every store state, the empty store included, a call of
\* handle_outliers with a method other than 'cap' and 'remove' ends in a
\* ValueError and leaves the store and the report as they were.
C3_UnknownMethodAlwaysRaises ==
    (Called("handle_outliers") /\ last.method \notin {"cap", "remove"}) =>
        /\ last.ret = "ValueError"
        /\ df = pre.df
        /\ report = pre.report

\* C3 as amended: the same for every store that is not empty.
C3_UnknownMethodRaisesOnNonEmpty ==
    (Called("handle_outliers") /\ last.method \notin {"cap", "remove"}
        /\ ~IsEmpty(pre.df)) =>
            /\ last.ret = "ValueError"
            /\ df = pre.df
            /\ report = pre.report

\* an unknown method has been refused on a store with rows
C3_Witness ==
    /\ Called("handle_outliers") /\ last.method = "bogus"
    /\ NRows(pre.df) > 1
    /\ last.ret = "ValueError"

\* C4: a failed ingestion is not propagated by the constructor; it leaves an
\* empty store and a report with the zero shape, and from there every call
\* of a stage ('cap' or 'remove' for the outlier stage) returns the controller,
\* export returns without raising, and store and report stay as they were.
C4_FailedIngestionStaysEmpty ==
    ingest # "ok" =>
        /\ df = EmptyDF
        /\ pre.df = EmptyDF
        /\ report = [initial_shape |-> <<0, 0>>]
        /\ pre.report = report
        /\ Called("__init__") => last.ret = "self"
        /\ Called("export") => (last.ret = "None" /\ last.out = "skipped")
        /\ (Called("handle_outliers") /\ last.method \in {"cap", "remove"}) => last.ret = "self"
        /\ last.op \in {"standardize", "handle_garbage", "impute_missing", "optimize"}
                => last.ret = "self"

\* after a failed ingestion the outlier stage and then optimize have run on
\* the empty store
C4_Witness ==
    /\ ingest = "unsupported_format"
    /\ Called("optimize") /\ last.ret = "self"
    /\ noutlier > 0
    /\ IsEmpty(df)

\* the median of the present values of a column: the middle one of an odd
\* number of values, the mean of the two middle ones of an even number
C6_Median(col) ==
    LET v == SortedVals(col)
        n == Len(v)
    IN  IF n % 2 = 1 THEN v[(n + 1) \div 2]
        ELSE RMul(<<1, 2>>, RAdd(v[n \div 2], v[n \div 2 + 1]))

\* c is the most frequent present value of col, and among the values as
\* frequent the one that sorts first
C6_IsMode(col, c) ==
    /\ c \in Range(Present(col))
    /\ \A e \in Range(Present(col)) :
        \/ Count(col, e) < Count(col, c)
        \/ (Count(col, e) = Count(col, c) /\ (e = c \/ CellLt(c, e)))

\* C6: impute_missing on a non-empty frame keeps the rows and the columns and
\* every present cell; in a column with a present value every missing cell
\* becomes the median of the present values (numeric column) or their mode,
\* the first in sort order among the most frequent (other columns); a column
\* without a present value stays entirely missing.
C6_ImputeFillsMedianOrMode ==
    (Called("impute_missing") /\ ~IsEmpty(pre.df)) =>
        /\ NRows(df) = NRows(pre.df)
        /\ df.columns = pre.df.columns
        /\ df.dtypes = pre.df.dtypes
        /\ \A j \in Cols(df) :
            LET col == Column(pre.df, j)
            IN  \A i \in Rows(df) :
                    IF ~IsNA(col[i]) THEN df.data[i][j] = col[i]
                    ELSE IF Present(col) = <<>> THEN IsNA(df.data[i][j])
                    ELSE IF IsNumericCol(pre.df, j) THEN df.data[i][j] = Num(C6_Median(col))
                    ELSE C6_IsMode(col, df.data[i][j])

\* an imputation has filled a number with the mean of two middle values and
\* a text with the mode that sorts first although another value as frequent
\* comes first in the column
C6_Witness ==
    /\ Called("impute_missing")
    /\ \E i \in Rows(df) :
        /\ IsNA(pre.df.data[i][1]) /\ IsNA(pre.df.data[i][2])
        /\ df.data[i][1] = Str(<<"a">>)
        /\ df.data[i][2] = IntCell(5)
    /\ pre.df.data[1][1] = Str(<<"b">>)

\* row i of rows is missing in every column
AllMissing(row) == \A j \in DOMAIN row : IsNA(row[j])

\* C7: after handle_garbage no two rows are equal in every column (missing
\* markers equal to each other), no row is missing throughout, the rows are
\* the first occurrences of the distinct rows not missing throughout, in
\* their order, there are no more rows than before, and removing the rows
\* missing throughout before the duplicates gives the same rows.
C7_GarbageRemoved ==
    Called("handle_garbage") =>
        /\ \A i, h \in Rows(df) : i # h => df.data[i] # df.data[h]
        /\ \A i \in Rows(df) : ~AllMissing(df.data[i])
        /\ df.data = FilterRows(pre.df.data,
                        [i \in Rows(pre.df) |->
                            /\ ~AllMissing(pre.df.data[i])
                            /\ \A h \in 1..(i - 1) : pre.df.data[h] # pre.df.data[i]], 1)
        /\ NRows(df) <= NRows(pre.df)
        /\ df.data = DropDuplicates(DropNaAll(pre.df.data))
        /\ df.columns = pre.df.columns

\* a duplicate of a row with a missing cell and a row missing throughout have
\* been removed, and the row with the missing cell is kept
C7_Witness ==
    /\ Called("handle_garbage")
    /\ NRows(pre.df) = 3 /\ NRows(df) = 1
    /\ \E i \in Rows(pre.df) : AllMissing(pre.df.data[i])
    /\ IsNA(df.data[1][2]) /\ ~IsNA(df.data[1][1])

\* C10 as stated: a cell that is missing before standardize is missing after
\* it, and an impute_missing right after the standardize fills the missing
\* cells of a text column that had a present value with the mode of the
\* values present before the standardize (trimmed, as standardize leaves them).
C10_StandardizeKeepsMissing ==
    [][/\ last'.op = "standardize" =>
            \A i \in Rows(df), j \in Cols(df) : IsNA(df.data[i][j]) => IsNA(df'.data[i][j])
       /\ (Called("standardize") /\ last'.op = "impute_missing") =>
            \A j \in Cols(pre.df) :
                (IsObjectCol(pre.df, j) /\ Present(Column(pre.df, j)) # <<>>) =>
                    LET was == Present(Column(pre.df, j))
                        trimmed == [h \in DOMAIN was |-> Str(Strip(was[h].s))]
                    IN  \A i \in Rows(pre.df) :
                            IsNA(pre.df.data[i][j]) => C6_IsMode(trimmed, df'.data[i][j])
      ]_vars

\* C5 as stated: a second standardize right after a standardize changes
\* neither a column name nor a cell.
C5_StandardizeIdempotent ==
    [][(Called("standardize") /\ last'.op = "standardize") => df' = df]_vars

\* C8 as stated: after standardize on a non-empty store every column name is
\* lowercase, free of whitespace of any kind and made of word characters only.
C8_NamesNormalized ==
    (Called("standardize") /\ ~IsEmpty(pre.df)) =>
        \A j \in Cols(df) :
            \A p \in DOMAIN df.columns[j] :
                LET c == df.columns[j][p]
                IN  ~IsUpper(c) /\ ~IsWhitespace(c) /\ IsWordChar(c)

====
